---------------------------- MODULE Spec2Model ----------------------------
(***************************************************************************)
(* Model of myGit's interactive session loop (src/src/index.js, lines      *)
(* 1-548).  The program is single threaded: every `await` of a call to the *)
(* version-control collaborator (simple-git) or to the prompting           *)
(* collaborator (inquirer) is one step of the model, whose outcome (the    *)
(* call resolving, or rejecting) is chosen by the environment.             *)
(*                                                                         *)
(* Lines 550-703 of the same file hold an older, single-shot variant of    *)
(* main() that nothing calls; it contributes no behaviour and is not       *)
(* modelled.                                                               *)
(***************************************************************************)
EXTENDS Integers, Sequences, FiniteSets

VARIABLES
    pc,         \* position of main() / the running handler
    exitCode,   \* -1 while the process runs, else the argument of process.exit
    action,     \* `action` of main()'s loop body; "none" before it is chosen
    current,    \* repository: the checked-out branch
    branches,   \* repository: local branches, in git's listing order
    remotes,    \* repository: configured remotes (names), in listing order
    loc,        \* local variables of the running handler
    log         \* collaborator calls and console output of this iteration

vars == <<pc, exitCode, action, current, branches, remotes, loc, log>>

---------------------------------------------------------------------------
(* Bounds of the model *)

NumBranches == 2
NumRemoteNames == 2
MaxDirty == 1

AllBranchNames == <<"dev", "main", "release", "topic">>
AllRemoteNames == <<"upstream", "origin", "backup", "fork">>

BranchNames == {AllBranchNames[i] : i \in 1..NumBranches}
RemoteNames == {AllRemoteNames[i] : i \in 1..NumRemoteNames}

---------------------------------------------------------------------------
(* Constants of the program *)

\* ACTIONS in the source (a reserved word of TLA+).
MENU_ACTIONS ==
    {"STATUS", "COMMIT_PUSH", "PULL", "PUSH", "BRANCH_MANAGE", "MERGE",
     "REMOTE_MANAGE", "EXIT"}

REMOTE_ACTIONS == {"ADD", "UPDATE", "DELETE", "BACK"}

---------------------------------------------------------------------------
(* Helpers *)

Range(s) == {s[i] : i \in DOMAIN s}

\* The sequences over S without repetition.
RECURSIVE Lists(_)
Lists(S) ==
    IF S = {} THEN {<<>>}
    ELSE {<<>>} \cup
         UNION {{<<x>> \o t : t \in Lists(S \ {x})} : x \in S}

\* One entry of the log: a call of a collaborator with its outcome and the
\* strings passed to it (for git.getRemotes: the names it returned), or a
\* line written to the console.
Ev(op, res, args) == [op |-> op, res |-> res, args |-> args]

\* console.log(...) of the message identified by tag.
consoleLog(tag) == Ev("console.log", "", <<tag>>)

\* handleError(err, operation): prints "<operation>失败: <message>".
handleError(operation) == Ev("handleError", "", <<operation>>)

\* The locals of a handler before it has assigned any.
NoLocals ==
    [currentBranch |-> "",
     status        |-> [modified |-> 0, not_added |-> 0],
     remotes       |-> <<>>,
     all           |-> <<>>,
     availableBranches |-> <<>>,
     remote        |-> "",
     branch        |-> "",
     remoteAction  |-> ""]

\* defaultRemoteOf without the preference for "origin": remotes[0]?.name.
defaultRemoteOf_first(rs) == rs[1]

\* remotes.find(r => r.name === "origin")?.name || remotes[0]?.name
defaultRemoteOf(rs) ==
    IF "origin" \in Range(rs) THEN "origin" ELSE rs[1]

\* mainCatch without the test of err.isTtyError: every error ends the process.
mainCatch_exitOnAnyError(isTtyError, lg) ==
    /\ log' = Append(lg, consoleLog("ttyUnsupported"))
    /\ pc' = "exited"
    /\ exitCode' = 1

\* The catch clause of main()'s loop body, entered with the log lg.
mainCatch(isTtyError, lg) ==
    IF isTtyError
    THEN /\ log' = Append(lg, consoleLog("ttyUnsupported"))
         /\ pc' = "exited"
         /\ exitCode' = 1
    ELSE /\ log' = Append(lg, handleError("executeAction"))
         /\ pc' = "main_catch_waitForContinue"
         /\ exitCode' = exitCode

\* The catch clause that ends a handler: report, and return to main().
handlerCatch(operation, lg) ==
    /\ log' = Append(lg, handleError(operation))
    /\ pc' = "main_waitForContinue"

\* A handler returning after its last console.log.
handlerReturn(lg) ==
    /\ log' = lg
    /\ pc' = "main_waitForContinue"

---------------------------------------------------------------------------
(* Construction *)

Init ==
    /\ pc = "checkIsRepo"
    /\ exitCode = -1
    /\ action = "none"
    /\ \E n \in 1..NumBranches : branches = SubSeq(AllBranchNames, 1, n)
    /\ current \in Range(branches)
    /\ remotes \in Lists(RemoteNames)
    /\ loc = NoLocals
    /\ log = <<>>

---------------------------------------------------------------------------
(* main(): startup check and session loop *)

checkIsRepo ==
    /\ pc = "checkIsRepo"
    /\ \/ /\ log' = <<Ev("git.checkIsRepo", "true", <<>>)>>
          /\ pc' = "main_loop"
          /\ exitCode' = exitCode
       \/ /\ log' = <<Ev("git.checkIsRepo", "false", <<>>), consoleLog("notARepo")>>
          /\ pc' = "exited"
          /\ exitCode' = 1
       \/ \* the call rejects: main() rejects, main().catch exits
          /\ log' = <<Ev("git.checkIsRepo", "fail", <<>>), consoleLog("unexpected")>>
          /\ pc' = "exited"
          /\ exitCode' = 1
    /\ UNCHANGED <<action, current, branches, remotes, loc>>

\* showMainMenu(), first await: getCurrentBranch().  A new iteration of the
\* loop starts here, with fresh locals.
showMainMenu_getCurrentBranch ==
    /\ pc = "main_loop"
    /\ action' = "none"
    /\ loc' = NoLocals
    /\ \/ /\ log' = <<Ev("git.branch", "ok", <<>>), consoleLog("currentBranch")>>
          /\ pc' = "showMainMenu_prompt"
          /\ exitCode' = exitCode
       \/ mainCatch(FALSE, <<Ev("git.branch", "fail", <<>>)>>)
    /\ UNCHANGED <<current, branches, remotes>>

\* showMainMenu(), second await: the list prompt; then executeAction's switch.
showMainMenu_prompt ==
    /\ pc = "showMainMenu_prompt"
    /\ \/ \E a \in MENU_ACTIONS :
             /\ action' = a
             /\ log' = Append(log, Ev("prompt.action", "ok", <<a>>))
             /\ pc' = "executeAction"
             /\ exitCode' = exitCode
       \/ /\ mainCatch(TRUE, Append(log, Ev("prompt.action", "tty", <<>>)))
          /\ action' = action
       \/ /\ mainCatch(FALSE, Append(log, Ev("prompt.action", "err", <<>>)))
          /\ action' = action
    /\ UNCHANGED <<current, branches, remotes, loc>>

\* executeAction(action): the switch; the EXIT case ends the process.
executeAction ==
    /\ pc = "executeAction"
    /\ IF action = "EXIT"
       THEN /\ log' = Append(log, consoleLog("bye"))
            /\ pc' = "exited"
            /\ exitCode' = 0
       ELSE /\ pc' = CASE action = "STATUS"        -> "showStatus"
                       [] action = "COMMIT_PUSH"   -> "commitAndPush_getCurrentBranch"
                       [] action = "PULL"          -> "pullCode"
                       [] action = "PUSH"          -> "pushCode_getRemotes"
                       [] action = "BRANCH_MANAGE" -> "manageBranches_branchLocal"
                       [] action = "MERGE"         -> "mergeBranch_getCurrentBranch"
                       [] action = "REMOTE_MANAGE" -> "manageRemotes_getRemotes"
            /\ UNCHANGED <<log, exitCode>>
    /\ UNCHANGED <<action, current, branches, remotes, loc>>

\* main(), `if (action !== ACTIONS.EXIT) await waitForContinue()` in the try.
main_waitForContinue ==
    /\ pc = "main_waitForContinue"
    /\ \/ /\ log' = Append(log, Ev("prompt.continue", "ok", <<>>))
          /\ pc' = "main_loop"
          /\ exitCode' = exitCode
       \/ mainCatch(TRUE, Append(log, Ev("prompt.continue", "tty", <<>>)))
       \/ mainCatch(FALSE, Append(log, Ev("prompt.continue", "err", <<>>)))
    /\ UNCHANGED <<action, current, branches, remotes, loc>>

\* main(), the waitForContinue() of the catch clause, in its own try/catch
\* whose catch is empty.
main_catch_waitForContinue ==
    /\ pc = "main_catch_waitForContinue"
    /\ \E r \in {"ok", "tty", "err"} :
          log' = Append(log, Ev("prompt.continue", r, <<>>))
    /\ pc' = "main_loop"
    /\ UNCHANGED <<exitCode, action, current, branches, remotes, loc>>

---------------------------------------------------------------------------
(* showStatus() *)

showStatus ==
    /\ pc = "showStatus"
    /\ \/ handlerReturn(log \o <<Ev("git.status", "ok", <<>>), consoleLog("status")>>)
       \/ handlerCatch("status", Append(log, Ev("git.status", "fail", <<>>)))
    /\ UNCHANGED <<exitCode, action, current, branches, remotes, loc>>

---------------------------------------------------------------------------
(* commitAndPush() *)

commitAndPush_getCurrentBranch ==
    /\ pc = "commitAndPush_getCurrentBranch"
    /\ \/ /\ loc' = [loc EXCEPT !.currentBranch = current]
          /\ log' = Append(log, Ev("git.branch", "ok", <<>>))
          /\ pc' = "commitAndPush_status"
       \/ /\ handlerCatch("commit", Append(log, Ev("git.branch", "fail", <<>>)))
          /\ loc' = loc
    /\ UNCHANGED <<exitCode, action, current, branches, remotes>>

\* commitAndPush_status without the `return` after the warning.
commitAndPush_status_noReturn ==
    /\ pc = "commitAndPush_status"
    /\ \/ \E m \in 0..MaxDirty, n \in 0..MaxDirty :
             /\ loc' = [loc EXCEPT !.status = [modified |-> m, not_added |-> n]]
             /\ log' = log \o <<Ev("git.status", "ok", <<>>)>>
                           \o (IF m = 0 /\ n = 0
                               THEN <<consoleLog("nothingToCommit")>> ELSE <<>>)
             /\ pc' = "commitAndPush_prompt"
       \/ /\ handlerCatch("commit", Append(log, Ev("git.status", "fail", <<>>)))
          /\ loc' = loc
    /\ UNCHANGED <<exitCode, action, current, branches, remotes>>

\* const status = await git.status(); and the test for changes.
commitAndPush_status ==
    /\ pc = "commitAndPush_status"
    /\ \/ \E m \in 0..MaxDirty, n \in 0..MaxDirty :
             /\ loc' = [loc EXCEPT !.status = [modified |-> m, not_added |-> n]]
             /\ IF m = 0 /\ n = 0
                THEN handlerReturn(log \o <<Ev("git.status", "ok", <<>>),
                                            consoleLog("nothingToCommit")>>)
                ELSE /\ log' = Append(log, Ev("git.status", "ok", <<>>))
                     /\ pc' = "commitAndPush_prompt"
       \/ /\ handlerCatch("commit", Append(log, Ev("git.status", "fail", <<>>)))
          /\ loc' = loc
    /\ UNCHANGED <<exitCode, action, current, branches, remotes>>

\* The input prompt for the commit message (validated to be non-blank).
commitAndPush_prompt ==
    /\ pc = "commitAndPush_prompt"
    /\ \/ /\ log' = Append(log, Ev("prompt.msg", "ok", <<>>))
          /\ pc' = "commitAndPush_add"
       \/ \E r \in {"tty", "err"} :
             handlerCatch("commit", Append(log, Ev("prompt.msg", r, <<>>)))
    /\ UNCHANGED <<exitCode, action, current, branches, remotes, loc>>

commitAndPush_add ==
    /\ pc = "commitAndPush_add"
    /\ \/ /\ log' = Append(log, Ev("git.add", "ok", <<".">>))
          /\ pc' = "commitAndPush_commit"
       \/ handlerCatch("commit", Append(log, Ev("git.add", "fail", <<".">>)))
    /\ UNCHANGED <<exitCode, action, current, branches, remotes, loc>>

\* commitAndPush_commit with the commit in a try of its own whose catch
\* reports and falls through to the pull.
commitAndPush_commit_fallThrough ==
    /\ pc = "commitAndPush_commit"
    /\ \/ /\ log' = log \o <<Ev("git.commit", "ok", <<>>), consoleLog("committed")>>
          /\ pc' = "commitAndPush_pull"
       \/ /\ log' = log \o <<Ev("git.commit", "fail", <<>>), handleError("commit")>>
          /\ pc' = "commitAndPush_pull"
    /\ UNCHANGED <<exitCode, action, current, branches, remotes, loc>>

commitAndPush_commit ==
    /\ pc = "commitAndPush_commit"
    /\ \/ /\ log' = log \o <<Ev("git.commit", "ok", <<>>), consoleLog("committed")>>
          /\ pc' = "commitAndPush_pull"
       \/ handlerCatch("commit", Append(log, Ev("git.commit", "fail", <<>>)))
    /\ UNCHANGED <<exitCode, action, current, branches, remotes, loc>>

\* commitAndPush_pull without the `return` of its catch clause.
commitAndPush_pull_noReturn ==
    /\ pc = "commitAndPush_pull"
    /\ \/ /\ log' = log \o <<Ev("git.pull", "ok", <<>>), consoleLog("synced")>>
          /\ pc' = "commitAndPush_getDefaultRemote"
       \/ /\ log' = log \o <<Ev("git.pull", "fail", <<>>), handleError("pull"),
                             consoleLog("pullFailedSkipPush")>>
          /\ pc' = "commitAndPush_getDefaultRemote"
    /\ UNCHANGED <<exitCode, action, current, branches, remotes, loc>>

\* The inner try around git.pull(): its catch reports and returns.
commitAndPush_pull ==
    /\ pc = "commitAndPush_pull"
    /\ \/ /\ log' = log \o <<Ev("git.pull", "ok", <<>>), consoleLog("synced")>>
          /\ pc' = "commitAndPush_getDefaultRemote"
       \/ handlerReturn(log \o <<Ev("git.pull", "fail", <<>>), handleError("pull"),
                                 consoleLog("pullFailedSkipPush")>>)
    /\ UNCHANGED <<exitCode, action, current, branches, remotes, loc>>

\* The inner try around the push: getDefaultRemote() throws on an empty list.
commitAndPush_getDefaultRemote ==
    /\ pc = "commitAndPush_getDefaultRemote"
    /\ \/ /\ remotes # <<>>
          /\ loc' = [loc EXCEPT !.remote = defaultRemoteOf(remotes)]
          /\ log' = Append(log, Ev("git.getRemotes", "ok", remotes))
          /\ pc' = "commitAndPush_push"
       \/ /\ remotes = <<>>
          /\ handlerCatch("push", Append(log, Ev("git.getRemotes", "ok", remotes)))
          /\ loc' = loc
       \/ /\ handlerCatch("push", Append(log, Ev("git.getRemotes", "fail", <<>>)))
          /\ loc' = loc
    /\ UNCHANGED <<exitCode, action, current, branches, remotes>>

commitAndPush_push ==
    /\ pc = "commitAndPush_push"
    /\ \/ handlerReturn(log \o <<Ev("git.push", "ok", <<loc.remote, loc.currentBranch>>),
                                 consoleLog("pushed")>>)
       \/ handlerCatch("push", Append(log, Ev("git.push", "fail",
                                              <<loc.remote, loc.currentBranch>>)))
    /\ UNCHANGED <<exitCode, action, current, branches, remotes, loc>>

---------------------------------------------------------------------------
(* pullCode() *)

pullCode ==
    /\ pc = "pullCode"
    /\ \/ handlerReturn(log \o <<Ev("git.pull", "ok", <<>>), consoleLog("pulled")>>)
       \/ handlerCatch("pull", Append(log, Ev("git.pull", "fail", <<>>)))
    /\ UNCHANGED <<exitCode, action, current, branches, remotes, loc>>

---------------------------------------------------------------------------
(* pushCode() *)

pushCode_getRemotes ==
    /\ pc = "pushCode_getRemotes"
    /\ \/ /\ loc' = [loc EXCEPT !.remotes = remotes]
          /\ IF Len(remotes) = 0
             THEN handlerReturn(log \o <<Ev("git.getRemotes", "ok", remotes),
                                         consoleLog("noRemotes")>>)
             ELSE /\ log' = Append(log, Ev("git.getRemotes", "ok", remotes))
                  /\ pc' = "pushCode_getCurrentBranch"
       \/ /\ handlerCatch("push", Append(log, Ev("git.getRemotes", "fail", <<>>)))
          /\ loc' = loc
    /\ UNCHANGED <<exitCode, action, current, branches, remotes>>

pushCode_getCurrentBranch ==
    /\ pc = "pushCode_getCurrentBranch"
    /\ \/ /\ loc' = [loc EXCEPT !.currentBranch = current]
          /\ log' = Append(log, Ev("git.branch", "ok", <<>>))
          /\ pc' = "pushCode_prompt"
       \/ /\ handlerCatch("push", Append(log, Ev("git.branch", "fail", <<>>)))
          /\ loc' = loc
    /\ UNCHANGED <<exitCode, action, current, branches, remotes>>

\* One prompt of two questions: the remote (a list) and the branch (free
\* text, defaulting to the current branch).
pushCode_prompt ==
    /\ pc = "pushCode_prompt"
    /\ \/ \E r \in Range(loc.remotes), b \in BranchNames :
             /\ loc' = [loc EXCEPT !.remote = r, !.branch = b]
             /\ log' = Append(log, Ev("prompt.remote+branch", "ok", <<r, b>>))
             /\ pc' = "pushCode_push"
       \/ \E r \in {"tty", "err"} :
             /\ handlerCatch("push", Append(log, Ev("prompt.remote+branch", r, <<>>)))
             /\ loc' = loc
    /\ UNCHANGED <<exitCode, action, current, branches, remotes>>

pushCode_push ==
    /\ pc = "pushCode_push"
    /\ \/ handlerReturn(log \o <<Ev("git.push", "ok", <<loc.remote, loc.branch>>),
                                 consoleLog("pushed")>>)
       \/ handlerCatch("push", Append(log, Ev("git.push", "fail",
                                              <<loc.remote, loc.branch>>)))
    /\ UNCHANGED <<exitCode, action, current, branches, remotes, loc>>

---------------------------------------------------------------------------
(* manageBranches() *)

manageBranches_branchLocal ==
    /\ pc = "manageBranches_branchLocal"
    /\ \/ /\ loc' = [loc EXCEPT !.all = branches, !.currentBranch = current]
          /\ log' = log \o <<Ev("git.branchLocal", "ok", <<>>), consoleLog("branches")>>
          /\ pc' = "manageBranches_prompt"
       \/ /\ handlerCatch("checkout", Append(log, Ev("git.branchLocal", "fail", <<>>)))
          /\ loc' = loc
    /\ UNCHANGED <<exitCode, action, current, branches, remotes>>

manageBranches_prompt ==
    /\ pc = "manageBranches_prompt"
    /\ \/ \E b \in Range(loc.all) :
             /\ loc' = [loc EXCEPT !.branch = b]
             /\ IF b = loc.currentBranch
                THEN handlerReturn(log \o <<Ev("prompt.branch", "ok", <<b>>),
                                            consoleLog("alreadyCurrent")>>)
                ELSE /\ log' = Append(log, Ev("prompt.branch", "ok", <<b>>))
                     /\ pc' = "manageBranches_checkout"
       \/ \E r \in {"tty", "err"} :
             /\ handlerCatch("checkout", Append(log, Ev("prompt.branch", r, <<>>)))
             /\ loc' = loc
    /\ UNCHANGED <<exitCode, action, current, branches, remotes>>

manageBranches_checkout ==
    /\ pc = "manageBranches_checkout"
    /\ \/ /\ current' = loc.branch
          /\ handlerReturn(log \o <<Ev("git.checkout", "ok", <<loc.branch>>),
                                    consoleLog("switched")>>)
       \/ /\ handlerCatch("checkout", Append(log, Ev("git.checkout", "fail",
                                                     <<loc.branch>>)))
          /\ current' = current
    /\ UNCHANGED <<exitCode, action, branches, remotes, loc>>

---------------------------------------------------------------------------
(* mergeBranch() *)

mergeBranch_getCurrentBranch ==
    /\ pc = "mergeBranch_getCurrentBranch"
    /\ \/ /\ loc' = [loc EXCEPT !.currentBranch = current]
          /\ log' = Append(log, Ev("git.branch", "ok", <<>>))
          /\ pc' = "mergeBranch_branchLocal"
       \/ /\ handlerCatch("merge", Append(log, Ev("git.branch", "fail", <<>>)))
          /\ loc' = loc
    /\ UNCHANGED <<exitCode, action, current, branches, remotes>>

\* const branches = await git.branchLocal(); the filter; the empty test.
mergeBranch_branchLocal ==
    /\ pc = "mergeBranch_branchLocal"
    /\ \/ /\ loc' = [loc EXCEPT
                        !.all = branches,
                        !.availableBranches =
                            SelectSeq(branches, LAMBDA b : b # loc.currentBranch)]
          /\ IF Len(loc'.availableBranches) = 0
             THEN handlerReturn(log \o <<Ev("git.branchLocal", "ok", <<>>),
                                         consoleLog("nothingToMerge")>>)
             ELSE /\ log' = Append(log, Ev("git.branchLocal", "ok", <<>>))
                  /\ pc' = "mergeBranch_promptBranch"
       \/ /\ handlerCatch("merge", Append(log, Ev("git.branchLocal", "fail", <<>>)))
          /\ loc' = loc
    /\ UNCHANGED <<exitCode, action, current, branches, remotes>>

mergeBranch_promptBranch ==
    /\ pc = "mergeBranch_promptBranch"
    /\ \/ \E b \in Range(loc.availableBranches) :
             /\ loc' = [loc EXCEPT !.branch = b]
             /\ log' = Append(log, Ev("prompt.branch", "ok", <<b>>))
             /\ pc' = "mergeBranch_promptConfirm"
       \/ \E r \in {"tty", "err"} :
             /\ handlerCatch("merge", Append(log, Ev("prompt.branch", r, <<>>)))
             /\ loc' = loc
    /\ UNCHANGED <<exitCode, action, current, branches, remotes>>

\* mergeBranch_promptConfirm without the `return` of `if (!confirm)`.
mergeBranch_promptConfirm_noReturn ==
    /\ pc = "mergeBranch_promptConfirm"
    /\ \/ /\ log' = Append(log, Ev("prompt.confirm", "ok", <<"yes">>))
          /\ pc' = "mergeBranch_merge"
       \/ /\ log' = log \o <<Ev("prompt.confirm", "ok", <<"no">>),
                             consoleLog("mergeCancelled")>>
          /\ pc' = "mergeBranch_merge"
       \/ \E r \in {"tty", "err"} :
             handlerCatch("merge", Append(log, Ev("prompt.confirm", r, <<>>)))
    /\ UNCHANGED <<exitCode, action, current, branches, remotes, loc>>

mergeBranch_promptConfirm ==
    /\ pc = "mergeBranch_promptConfirm"
    /\ \/ /\ log' = Append(log, Ev("prompt.confirm", "ok", <<"yes">>))
          /\ pc' = "mergeBranch_merge"
       \/ handlerReturn(log \o <<Ev("prompt.confirm", "ok", <<"no">>),
                                 consoleLog("mergeCancelled")>>)
       \/ \E r \in {"tty", "err"} :
             handlerCatch("merge", Append(log, Ev("prompt.confirm", r, <<>>)))
    /\ UNCHANGED <<exitCode, action, current, branches, remotes, loc>>

mergeBranch_merge ==
    /\ pc = "mergeBranch_merge"
    /\ \/ handlerReturn(log \o <<Ev("git.merge", "ok", <<loc.branch>>),
                                 consoleLog("merged")>>)
       \/ handlerCatch("merge", Append(log, Ev("git.merge", "fail", <<loc.branch>>)))
    /\ UNCHANGED <<exitCode, action, current, branches, remotes, loc>>

---------------------------------------------------------------------------
(* manageRemotes(): no try/catch of its own *)

manageRemotes_getRemotes ==
    /\ pc = "manageRemotes_getRemotes"
    /\ \/ /\ loc' = [loc EXCEPT !.remotes = remotes]
          /\ log' = log \o <<Ev("git.getRemotes", "ok", remotes),
                             consoleLog(IF Len(remotes) = 0 THEN "noRemotes"
                                                            ELSE "remotes")>>
          /\ pc' = "manageRemotes_prompt"
          /\ exitCode' = exitCode
       \/ /\ mainCatch(FALSE, Append(log, Ev("git.getRemotes", "fail", <<>>)))
          /\ loc' = loc
    /\ UNCHANGED <<action, current, branches, remotes>>

\* The sub-menu prompt and the switch on its answer.
manageRemotes_prompt ==
    /\ pc = "manageRemotes_prompt"
    /\ \/ \E ra \in REMOTE_ACTIONS :
             /\ loc' = [loc EXCEPT !.remoteAction = ra]
             /\ log' = Append(log, Ev("prompt.remoteAction", "ok", <<ra>>))
             /\ pc' = CASE ra = "ADD"    -> "addRemote_prompt"
                        [] ra = "UPDATE" -> "updateRemote_getRemotes"
                        [] ra = "DELETE" -> "deleteRemote_getRemotes"
                        [] ra = "BACK"   -> "main_waitForContinue"
             /\ exitCode' = exitCode
       \/ /\ mainCatch(TRUE, Append(log, Ev("prompt.remoteAction", "tty", <<>>)))
          /\ loc' = loc
       \/ /\ mainCatch(FALSE, Append(log, Ev("prompt.remoteAction", "err", <<>>)))
          /\ loc' = loc
    /\ UNCHANGED <<action, current, branches, remotes>>

---------------------------------------------------------------------------
(* addRemote() *)

\* One prompt of two questions, name and url, both validated non-blank.
addRemote_prompt ==
    /\ pc = "addRemote_prompt"
    /\ \/ \E n \in RemoteNames :
             /\ loc' = [loc EXCEPT !.remote = n]
             /\ log' = Append(log, Ev("prompt.name+url", "ok", <<n>>))
             /\ pc' = "addRemote_addRemote"
       \/ \E r \in {"tty", "err"} :
             /\ handlerCatch("addRemote", Append(log, Ev("prompt.name+url", r, <<>>)))
             /\ loc' = loc
    /\ UNCHANGED <<exitCode, action, current, branches, remotes>>

\* git.addRemote(name, url); git refuses a name that is already configured.
addRemote_addRemote ==
    /\ pc = "addRemote_addRemote"
    /\ \/ /\ loc.remote \notin Range(remotes)
          /\ remotes' = Append(remotes, loc.remote)
          /\ handlerReturn(log \o <<Ev("git.addRemote", "ok", <<loc.remote>>),
                                    consoleLog("remoteAdded")>>)
       \/ /\ handlerCatch("addRemote", Append(log, Ev("git.addRemote", "fail",
                                                      <<loc.remote>>)))
          /\ remotes' = remotes
    /\ UNCHANGED <<exitCode, action, current, branches, loc>>

---------------------------------------------------------------------------
(* updateRemote() *)

\* updateRemote_getRemotes without the test for an empty list.
updateRemote_getRemotes_noEmptyTest ==
    /\ pc = "updateRemote_getRemotes"
    /\ \/ /\ loc' = [loc EXCEPT !.remotes = remotes]
          /\ log' = Append(log, Ev("git.getRemotes", "ok", remotes))
          /\ pc' = "updateRemote_prompt"
       \/ /\ handlerCatch("updateRemote", Append(log, Ev("git.getRemotes", "fail", <<>>)))
          /\ loc' = loc
    /\ UNCHANGED <<exitCode, action, current, branches, remotes>>

updateRemote_getRemotes ==
    /\ pc = "updateRemote_getRemotes"
    /\ \/ /\ loc' = [loc EXCEPT !.remotes = remotes]
          /\ IF Len(remotes) = 0
             THEN handlerReturn(log \o <<Ev("git.getRemotes", "ok", remotes),
                                         consoleLog("noRemoteToUpdate")>>)
             ELSE /\ log' = Append(log, Ev("git.getRemotes", "ok", remotes))
                  /\ pc' = "updateRemote_prompt"
       \/ /\ handlerCatch("updateRemote", Append(log, Ev("git.getRemotes", "fail", <<>>)))
          /\ loc' = loc
    /\ UNCHANGED <<exitCode, action, current, branches, remotes>>

\* One prompt of two questions: the remote (a list) and the new url.
updateRemote_prompt ==
    /\ pc = "updateRemote_prompt"
    /\ \/ \E n \in Range(loc.remotes) :
             /\ loc' = [loc EXCEPT !.remote = n]
             /\ log' = Append(log, Ev("prompt.remoteName+newUrl", "ok", <<n>>))
             /\ pc' = "updateRemote_setUrl"
       \/ \E r \in {"tty", "err"} :
             /\ handlerCatch("updateRemote",
                             Append(log, Ev("prompt.remoteName+newUrl", r, <<>>)))
             /\ loc' = loc
    /\ UNCHANGED <<exitCode, action, current, branches, remotes>>

updateRemote_setUrl ==
    /\ pc = "updateRemote_setUrl"
    /\ \/ handlerReturn(log \o <<Ev("git.remote.set-url", "ok", <<loc.remote>>),
                                 consoleLog("remoteUpdated")>>)
       \/ handlerCatch("updateRemote", Append(log, Ev("git.remote.set-url", "fail",
                                                      <<loc.remote>>)))
    /\ UNCHANGED <<exitCode, action, current, branches, remotes, loc>>

---------------------------------------------------------------------------
(* deleteRemote() *)

deleteRemote_getRemotes ==
    /\ pc = "deleteRemote_getRemotes"
    /\ \/ /\ loc' = [loc EXCEPT !.remotes = remotes]
          /\ IF Len(remotes) = 0
             THEN handlerReturn(log \o <<Ev("git.getRemotes", "ok", remotes),
                                         consoleLog("noRemoteToDelete")>>)
             ELSE /\ log' = Append(log, Ev("git.getRemotes", "ok", remotes))
                  /\ pc' = "deleteRemote_promptName"
       \/ /\ handlerCatch("deleteRemote", Append(log, Ev("git.getRemotes", "fail", <<>>)))
          /\ loc' = loc
    /\ UNCHANGED <<exitCode, action, current, branches, remotes>>

deleteRemote_promptName ==
    /\ pc = "deleteRemote_promptName"
    /\ \/ \E n \in Range(loc.remotes) :
             /\ loc' = [loc EXCEPT !.remote = n]
             /\ log' = Append(log, Ev("prompt.remoteName", "ok", <<n>>))
             /\ pc' = "deleteRemote_promptConfirm"
       \/ \E r \in {"tty", "err"} :
             /\ handlerCatch("deleteRemote", Append(log, Ev("prompt.remoteName", r, <<>>)))
             /\ loc' = loc
    /\ UNCHANGED <<exitCode, action, current, branches, remotes>>

deleteRemote_promptConfirm ==
    /\ pc = "deleteRemote_promptConfirm"
    /\ \/ /\ log' = Append(log, Ev("prompt.confirm", "ok", <<"yes">>))
          /\ pc' = "deleteRemote_removeRemote"
       \/ handlerReturn(log \o <<Ev("prompt.confirm", "ok", <<"no">>),
                                 consoleLog("deleteCancelled")>>)
       \/ \E r \in {"tty", "err"} :
             handlerCatch("deleteRemote", Append(log, Ev("prompt.confirm", r, <<>>)))
    /\ UNCHANGED <<exitCode, action, current, branches, remotes, loc>>

deleteRemote_removeRemote ==
    /\ pc = "deleteRemote_removeRemote"
    /\ \/ /\ remotes' = SelectSeq(remotes, LAMBDA n : n # loc.remote)
          /\ handlerReturn(log \o <<Ev("git.removeRemote", "ok", <<loc.remote>>),
                                    consoleLog("remoteDeleted")>>)
       \/ /\ handlerCatch("deleteRemote", Append(log, Ev("git.removeRemote", "fail",
                                                         <<loc.remote>>)))
          /\ remotes' = remotes
    /\ UNCHANGED <<exitCode, action, current, branches, loc>>

---------------------------------------------------------------------------

Next ==
    \/ checkIsRepo
    \/ showMainMenu_getCurrentBranch
    \/ showMainMenu_prompt
    \/ executeAction
    \/ main_waitForContinue
    \/ main_catch_waitForContinue
    \/ showStatus
    \/ commitAndPush_getCurrentBranch
    \/ commitAndPush_status
    \/ commitAndPush_prompt
    \/ commitAndPush_add
    \/ commitAndPush_commit
    \/ commitAndPush_pull
    \/ commitAndPush_getDefaultRemote
    \/ commitAndPush_push
    \/ pullCode
    \/ pushCode_getRemotes
    \/ pushCode_getCurrentBranch
    \/ pushCode_prompt
    \/ pushCode_push
    \/ manageBranches_branchLocal
    \/ manageBranches_prompt
    \/ manageBranches_checkout
    \/ mergeBranch_getCurrentBranch
    \/ mergeBranch_branchLocal
    \/ mergeBranch_promptBranch
    \/ mergeBranch_promptConfirm
    \/ mergeBranch_merge
    \/ manageRemotes_getRemotes
    \/ manageRemotes_prompt
    \/ addRemote_prompt
    \/ addRemote_addRemote
    \/ updateRemote_getRemotes
    \/ updateRemote_prompt
    \/ updateRemote_setUrl
    \/ deleteRemote_getRemotes
    \/ deleteRemote_promptName
    \/ deleteRemote_promptConfirm
    \/ deleteRemote_removeRemote

Spec == Init /\ [][Next]_vars

---------------------------------------------------------------------------
(* Vocabulary of the properties *)

Has(e) == \E i \in DOMAIN log : log[i] = e

Calls(op) == {i \in DOMAIN log : log[i].op = op}

GitOps ==
    {"git.checkIsRepo", "git.branch", "git.status", "git.add", "git.commit",
     "git.pull", "git.push", "git.getRemotes", "git.branchLocal",
     "git.checkout", "git.merge", "git.addRemote", "git.remote.set-url",
     "git.removeRemote"}

\* Positions at which control is in main()'s loop, outside every handler,
\* or the process has ended.
LoopPcs ==
    {"main_loop", "main_waitForContinue", "main_catch_waitForContinue", "exited"}

---------------------------------------------------------------------------
(* Properties *)

\* C1: in commit-and-sync, a push call occurs only after a pull call of the
\* same invocation has succeeded; once the pull has failed no push is made.
PushOnlyAfterSuccessfulPull ==
    action = "COMMIT_PUSH" =>
        /\ \A i \in Calls("git.push") :
              \E j \in 1..(i - 1) : log[j] = Ev("git.pull", "ok", <<>>)
        /\ Has(Ev("git.pull", "fail", <<>>)) => Calls("git.push") = {}

\* C1 witness: commit-and-sync has returned to the loop after a failed pull.
FailedPullReturned ==
    /\ action = "COMMIT_PUSH"
    /\ pc = "main_waitForContinue"
    /\ Has(Ev("git.pull", "fail", <<>>))

\* C2: for a selection other than Exit, the pause prompt is presented exactly
\* once between the handler's return and the next presentation of the menu.
PauseExactlyOnce ==
    (pc = "main_loop" /\ action \in MENU_ACTIONS \ {"EXIT"}) =>
        Cardinality(Calls("prompt.continue")) = 1

\* C3: in commit-and-sync, when status reports no modified and no untracked
\* file, only the warning follows: no message prompt, add, commit, pull or
\* push is made in that invocation.
NoChangesNoCalls ==
    \A k \in DOMAIN log :
        ( /\ action = "COMMIT_PUSH"
          /\ log[k] = Ev("git.status", "ok", <<>>)
          /\ loc.status.modified = 0
          /\ loc.status.not_added = 0 ) =>
            /\ Len(log) > k
            /\ log[k + 1] = consoleLog("nothingToCommit")
            /\ pc \in LoopPcs
            /\ \A j \in DOMAIN log :
                  log[j].op \notin {"prompt.msg", "git.add", "git.commit",
                                    "git.pull", "git.push"}

\* C3 witness: commit-and-sync has returned on a clean working tree.
CleanTreeReturned ==
    /\ action = "COMMIT_PUSH"
    /\ pc = "main_waitForContinue"
    /\ Has(Ev("git.status", "ok", <<>>))
    /\ loc.status = [modified |-> 0, not_added |-> 0]

\* C4: in commit-and-sync, a failed add or commit is reported, ends the
\* sequence with neither pull nor push, and returns control to the loop.
AddOrCommitFailureStops ==
    \A i \in DOMAIN log :
        ( /\ action = "COMMIT_PUSH"
          /\ log[i].op \in {"git.add", "git.commit"}
          /\ log[i].res = "fail" ) =>
            /\ Len(log) > i
            /\ log[i + 1] = handleError("commit")
            /\ pc \in LoopPcs
            /\ Calls("git.pull") = {}
            /\ Calls("git.push") = {}

\* C4 witness: commit-and-sync has returned after a failed commit.
FailedCommitReturned ==
    /\ action = "COMMIT_PUSH"
    /\ pc = "main_waitForContinue"
    /\ Has(Ev("git.commit", "fail", <<>>))

\* C5: a step in which a prompt raises the non-interactive condition ends
\* the process with exit code 1 (so that no further call or prompt follows),
\* and a step in which a call inside the loop fails otherwise does not end it.
TtyErrorAlwaysFatal ==
    [][ /\ (\E i \in DOMAIN log' : i > Len(log) /\ log'[i].res = "tty") =>
              (pc' = "exited" /\ exitCode' = 1)
        /\ ( /\ pc # "checkIsRepo"
             /\ \E i \in DOMAIN log' :
                   /\ log'[i].res \in {"fail", "err"}
                   /\ (i > Len(log) \/ pc = "main_loop") ) =>
              pc' # "exited"
      ]_vars

\* C6: no failure of a version-control call made by a handler reaches the
\* catch clause of main()'s loop.
HandlersCatchLocally ==
    \A i \in DOMAIN log :
        ( /\ action # "none"
          /\ i > 1
          /\ log[i] = handleError("executeAction") ) =>
            ~ (log[i - 1].op \in GitOps /\ log[i - 1].res = "fail")

\* C7: when the current-branch query at the start of an iteration fails,
\* the main menu is still presented in that iteration.
BranchQueryBestEffort ==
    (log # <<>> /\ log[1] = Ev("git.branch", "fail", <<>>)) =>
        (pc = "showMainMenu_prompt" \/ Calls("prompt.action") # {})

\* C8 as stated: the process ends with code 0 only on Exit, with code 1 only
\* on "not a repository" at startup or on a prompt's non-interactive error.
ExitOnlyAsStated ==
    /\ (pc = "exited") <=> (exitCode # -1)
    /\ action = "EXIT" => pc \in {"executeAction", "exited"}
    /\ pc = "exited" =>
          \/ /\ exitCode = 0
             /\ action = "EXIT"
          \/ /\ exitCode = 1
             /\ log = <<Ev("git.checkIsRepo", "false", <<>>), consoleLog("notARepo")>>
          \/ /\ exitCode = 1
             /\ Len(log) >= 2
             /\ log[Len(log) - 1].op \in {"prompt.action", "prompt.remoteAction",
                                          "prompt.continue"}
             /\ log[Len(log) - 1].res = "tty"

\* C8 amended: as stated, with one more way to end with code 1: the startup
\* check itself failing, before any menu is presented.
ExitOnlyAsStatedOrStartupFailure ==
    /\ (pc = "exited") <=> (exitCode # -1)
    /\ action = "EXIT" => pc \in {"executeAction", "exited"}
    /\ pc = "exited" =>
          \/ /\ exitCode = 0
             /\ action = "EXIT"
          \/ /\ exitCode = 1
             /\ log = <<Ev("git.checkIsRepo", "false", <<>>), consoleLog("notARepo")>>
          \/ /\ exitCode = 1
             /\ log = <<Ev("git.checkIsRepo", "fail", <<>>), consoleLog("unexpected")>>
          \/ /\ exitCode = 1
             /\ Len(log) >= 2
             /\ log[Len(log) - 1].op \in {"prompt.action", "prompt.remoteAction",
                                          "prompt.continue"}
             /\ log[Len(log) - 1].res = "tty"

\* C8 witness: the process has ended with code 1 on a prompt's
\* non-interactive error after a handler ran.
ExitedOnTtyError ==
    /\ pc = "exited"
    /\ exitCode = 1
    /\ action \in MENU_ACTIONS \ {"EXIT"}
    /\ Has(Ev("prompt.continue", "tty", <<>>))

EmptyRemotesShortCircuit ==
    \A k \in DOMAIN log :
        ( /\ log[k].op = "prompt.remoteAction"
          /\ log[k].res = "ok"
          /\ log[k].args[1] \in {"UPDATE", "DELETE"}
          /\ Len(log) > k
          /\ log[k + 1] = Ev("git.getRemotes", "ok", <<>>) ) =>
            /\ Len(log) > k + 1
            /\ log[k + 2] = consoleLog(IF log[k].args[1] = "UPDATE"
                                       THEN "noRemoteToUpdate"
                                       ELSE "noRemoteToDelete")
            /\ pc \in LoopPcs
            /\ \A j \in DOMAIN log :
                  log[j].op \notin {"prompt.remoteName+newUrl", "prompt.remoteName",
                                    "prompt.confirm", "git.remote.set-url",
                                    "git.removeRemote"}

\* C10 witness: update was chosen with no remote configured and has returned.
UpdateOnEmptyReturned ==
    /\ loc.remoteAction = "UPDATE"
    /\ remotes = <<>>
    /\ pc = "main_waitForContinue"
    /\ Has(consoleLog("noRemoteToUpdate"))

\* C11: the push of commit-and-sync goes to "origin" when the listed remotes
\* (a non-empty list) hold a remote of that name anywhere, else to the first
\* listed remote, and names the branch that was current when the action
\* started; a non-empty listing is always followed by that push.
PushToDefaultRemoteOnStartBranch ==
    action = "COMMIT_PUSH" =>
        /\ \A i \in Calls("git.push") :
              /\ i > 1
              /\ log[i - 1].op = "git.getRemotes"
              /\ log[i - 1].res = "ok"
              /\ log[i - 1].args # <<>>
              /\ log[i].args[1] =
                    (IF \E k \in DOMAIN log[i - 1].args : log[i - 1].args[k] = "origin"
                     THEN "origin"
                     ELSE log[i - 1].args[1])
              /\ log[i].args[2] = current
        /\ \A i \in Calls("git.getRemotes") :
              (log[i].res = "ok" /\ log[i].args # <<>>) =>
                  \/ pc = "commitAndPush_push"
                  \/ (Len(log) > i /\ log[i + 1].op = "git.push")

\* C11 witness: commit-and-sync has pushed with "origin" listed second.
PushedWithOriginListedSecond ==
    /\ action = "COMMIT_PUSH"
    /\ Len(remotes) >= 2
    /\ remotes[1] # "origin"
    /\ remotes[2] = "origin"
    /\ \E i \in Calls("git.push") : log[i].args = <<"origin", current>>

===========================================================================
